---- MODULE Spec2Model ----
(***************************************************************************)
(* Model of the two report parsers of hdfs_info.py:                        *)
(*   interpret_fsck_output      (the "consistency report" parser)          *)
(*   interpret_dfsadmin_report  (the "capacity report" parser)             *)
(*                                                                         *)
(* A text is a sequence of characters, a character a one-character string. *)
(* A parse call is a run of the machine: the loop body is one step per     *)
(* line of splitlines(), chosen among Lines, and the code after the loop   *)
(* is the final step.  A dict is a function from keys to values; a value   *)
(* stored in a report is tagged Leaf (str), Object (dict) or List (list).  *)
(***************************************************************************)
EXTENDS Integers, Sequences, FiniteSets, TLC

\* ------------------------------------------------------------------ bounds

\* Longest input, in lines, of a parse call.
MaxLines == 4

\* Longest raw key the normalization is applied to.
MaxKeyLen == 4

\* ------------------------------------------------------------ str methods

SP == " "
TAB == "\t"

\* The characters str.strip() removes that can stand inside a line.
Whitespace == {SP, TAB}

UpperCase == <<"A", "B", "C", "D", "E", "F", "G", "H", "I", "J", "K", "L", "M",
               "N", "O", "P", "Q", "R", "S", "T", "U", "V", "W", "X", "Y", "Z">>

LowerCase == <<"a", "b", "c", "d", "e", "f", "g", "h", "i", "j", "k", "l", "m",
               "n", "o", "p", "q", "r", "s", "t", "u", "v", "w", "x", "y", "z">>

Digits == <<"0", "1", "2", "3", "4", "5", "6", "7", "8", "9">>

\* s[i..j], empty when i > j.
Slice(s, i, j) == [n \in 1..(j - i + 1) |-> s[i + n - 1]]

\* str.lstrip()
LStrip(s) ==
    LET keep == {i \in 1..Len(s) : s[i] \notin Whitespace}
    IN  IF keep = {} THEN <<>>
        ELSE Slice(s, CHOOSE i \in keep : \A j \in keep : i <= j, Len(s))

\* str.rstrip()
RStrip(s) ==
    LET keep == {i \in 1..Len(s) : s[i] \notin Whitespace}
    IN  IF keep = {} THEN <<>>
        ELSE Slice(s, 1, CHOOSE i \in keep : \A j \in keep : j <= i)

\* str.strip()
Strip(s) == LStrip(RStrip(s))

\* The places where sep occurs in s.
Occurrences(s, sep) ==
    {i \in 1..(Len(s) - Len(sep) + 1) : Slice(s, i, i + Len(sep) - 1) = sep}

\* sep in s
Contains(s, sep) == Occurrences(s, sep) # {}

\* s.split(sep)[0]: the text before the first sep, all of s without one.
SplitHead(s, sep) ==
    LET occ == Occurrences(s, sep)
    IN  IF occ = {} THEN s
        ELSE Slice(s, 1, (CHOOSE i \in occ : \A j \in occ : i <= j) - 1)

\* s.split(sep)[-1]: the text after the last sep, all of s without one.
SplitLast(s, sep) ==
    LET occ == Occurrences(s, sep)
    IN  IF occ = {} THEN s
        ELSE Slice(s, (CHOOSE i \in occ : \A j \in occ : j <= i) + Len(sep), Len(s))

\* s.split(sep, 1)[1]: the text after the first sep (sep occurs in s).
SplitRest(s, sep) ==
    LET occ == Occurrences(s, sep)
    IN  Slice(s, (CHOOSE i \in occ : \A j \in occ : i <= j) + Len(sep), Len(s))

\* str.lower(), one character.
LowerChar(c) ==
    IF \E i \in 1..Len(UpperCase) : UpperCase[i] = c
    THEN LowerCase[CHOOSE i \in 1..Len(UpperCase) : UpperCase[i] = c]
    ELSE c

\* str.lower()
Lower(s) == [i \in 1..Len(s) |-> LowerChar(s[i])]

\* str.replace(old, new) for a one-character old.
RECURSIVE Replace(_, _, _)
Replace(s, old, new) ==
    IF s = <<>> THEN <<>>
    ELSE (IF Head(s) = old THEN new ELSE <<Head(s)>>) \o Replace(Tail(s), old, new)

\* The value of a run of decimal digits.
RECURSIVE DigitsValue(_)
DigitsValue(s) ==
    IF s = <<>> THEN 0
    ELSE 10 * DigitsValue(Slice(s, 1, Len(s) - 1))
         + (CHOOSE d \in 0..9 : Digits[d + 1] = s[Len(s)])

\* int(s): surrounding whitespace is dropped, a sign may lead, and single
\* underscores may stand between digits; anything else raises ValueError.
IntParse(s) ==
    LET t      == Strip(s)
        signed == t # <<>> /\ t[1] \in {"+", "-"}
        body   == IF signed THEN Tail(t) ELSE t
        isDig  == [i \in 1..Len(body) |-> \E d \in 1..10 : Digits[d] = body[i]]
        wellFormed ==
            /\ body # <<>>
            /\ \A i \in 1..Len(body) :
                  \/ isDig[i]
                  \/ /\ body[i] = "_"
                     /\ i > 1 /\ i < Len(body)
                     /\ isDig[i - 1] /\ isDig[i + 1]
        mag    == DigitsValue(SelectSeq(body, LAMBDA c : c # "_"))
    IN  IF ~wellFormed THEN [ok |-> FALSE, val |-> 0]
        ELSE [ok |-> TRUE, val |-> IF signed /\ t[1] = "-" THEN 0 - mag ELSE mag]

\* ------------------------------------------------------------ line parsing

COLON == <<":">>
LPAREN == <<"(">>
RPAREN == <<")">>
SPLPAREN == <<" ", "(">>

\* ':' in line
HasColon(line) == Contains(line, COLON)

NormalizeSwapped(k) ==
    Replace(Replace(Lower(SplitHead(Strip(k), SPLPAREN)), "_", <<SP>>),
            "%", <<"_", "p", "c", "t">>)

\* key.strip().split(' (')[0].lower().replace(' ', '_').replace('%', '_pct')
Normalize(k) ==
    Replace(Replace(Lower(SplitHead(Strip(k), SPLPAREN)), SP, <<"_">>),
            "%", <<"_", "p", "c", "t">>)

\* interpret_dfsadmin_report: line = line.strip()
DfsLine(raw) == Strip(raw)

DfsKeyUnnormalized(line) == Strip(SplitHead(line, COLON))

\* interpret_dfsadmin_report: the key of a stripped line with a colon.
DfsKey(line) == Normalize(SplitHead(line, COLON))

DfsValueUntruncated(line) == Strip(SplitRest(line, COLON))

DfsValueTruncatedFirst(line) == Strip(SplitHead(SplitRest(line, COLON), SPLPAREN))

\* interpret_dfsadmin_report: value.strip().split(' (')[0]
DfsValue(line) == SplitHead(Strip(SplitRest(line, COLON)), SPLPAREN)

\* '(' in line.split(':')[0]
HasCount(line) == Contains(SplitHead(line, COLON), LPAREN)

\* line.split('(')[-1].split(')')[0], the text handed to int()
CountText(line) == SplitHead(SplitLast(line, LPAREN), RPAREN)

\* int(...) if '(' in line.split(':')[0] else 1
Count(line) ==
    IF HasCount(line) THEN IntParse(CountText(line)) ELSE [ok |-> TRUE, val |-> 1]

\* is_array = '(' in line
IsArrayLine(line) == Contains(line, LPAREN)

FsckKeyNormalized(raw) == Normalize(SplitHead(raw, COLON))

\* interpret_fsck_output: key.strip() of a line with a colon.
FsckKey(raw) == Strip(SplitHead(raw, COLON))

FsckValueTruncated(raw) == SplitHead(Strip(SplitRest(raw, COLON)), SPLPAREN)

\* interpret_fsck_output: value.strip()
FsckValue(raw) == Strip(SplitRest(raw, COLON))

\* ----------------------------------------------------------------- values

Leaf(s) == [t |-> "Leaf", v |-> s]
Object(d) == [t |-> "Object", v |-> d]
List(l) == [t |-> "List", v |-> l]

\* {}
EmptyDict == [k \in {} |-> Leaf(<<>>)]

DictSetDefault(d, k, x) ==
    [y \in DOMAIN d \cup {k} |-> IF y \in DOMAIN d THEN d[y] ELSE x]

\* d[k] = x
DictSet(d, k, x) == [y \in DOMAIN d \cup {k} |-> IF y = k THEN x ELSE d[y]]

\* None, and a str held where None may be.
None == [some |-> FALSE, v |-> <<>>]
Some(s) == [some |-> TRUE, v |-> s]

\* Python's truth value of a str-or-None: None and '' are false.
Truthy(o) == o.some /\ o.v # <<>>

NoException == [type |-> "None", arg |-> <<>>]
ValueError(text) == [type |-> "ValueError", arg |-> text]
TypeError == [type |-> "TypeError", arg |-> <<>>]

\* ------------------------------------------------------------------ state

VARIABLES
    call,                 \* the function called
    pc,                   \* "loop", "returned" or "raised"
    exc,                  \* the exception that ended the call, if one did
    consumed,             \* the lines of splitlines() iterated so far
    fsck_dict,            \* interpret_fsck_output
    fsck_section,         \* interpret_fsck_output's current_section
    dfsadmin_dict,        \* interpret_dfsadmin_report
    current_section,
    current_object_list,
    current_object,
    objects_remaining,
    in_object_section,
    is_array,
    keys                  \* a raw key and its successive normalizations

vars == <<call, pc, exc, consumed, fsck_dict, fsck_section, dfsadmin_dict,
          current_section, current_object_list, current_object,
          objects_remaining, in_object_section, is_array, keys>>

fsckVars == <<fsck_dict, fsck_section>>

dfsVars == <<dfsadmin_dict, current_section, current_object_list,
             current_object, objects_remaining, in_object_section, is_array>>

\* ----------------------------------------------------------------- inputs

LineBlank    == <<>>
LineText     == <<"x", " ", "y">>
LineKeyA     == <<"D", " ", "U", "%", ":", " ", "a", " ", "(", "x", ")">>
LineKeyA2    == <<" ", "D", " ", "U", "%", " ", ":", " ", "b">>
LineKeyS     == <<"S", ":", " ", "(", "1", ")">>
LineScalar   == <<"S", ":">>
LineNoName   == <<":">>
LineArray2   == <<"L", " ", "(", "2", ")", ":">>
LineArray1   == <<"T", " ", "(", "1", ")", ":">>
LineArray0   == <<"S", " ", "(", "0", ")", ":">>
LineArrayNeg == <<"L", " ", "(", "-", "1", ")", ":">>
LineArrayBad == <<"L", " ", "(", "x", ")", ":">>

\* The lines a report is made of.
Lines == {LineBlank, LineText, LineKeyA, LineKeyA2, LineKeyS, LineScalar,
          LineNoName, LineArray2, LineArray1, LineArray0, LineArrayNeg,
          LineArrayBad}

\* The lines of a consistency report, where a parenthetical is given no meaning.
FsckLines == {LineBlank, LineText, LineKeyA, LineKeyA2, LineKeyS, LineScalar,
              LineNoName, LineArray2}

\* The characters of a raw key.
KeyAlphabet == {"A", "b", SP, TAB, "(", ")", "%", "_"}

RawKeys == UNION {[1..n -> KeyAlphabet] : n \in 0..MaxKeyLen}

\* ------------------------------------------------------------------- init

\* The locals of both parsers as their first statements set them.
InitLocals ==
    /\ pc = "loop"
    /\ exc = NoException
    /\ consumed = <<>>
    /\ fsck_dict = EmptyDict
    /\ fsck_section = None
    /\ dfsadmin_dict = EmptyDict
    /\ current_section = None
    /\ current_object_list = <<>>
    /\ current_object = EmptyDict
    /\ objects_remaining = 0
    /\ in_object_section = FALSE
    /\ is_array = FALSE

Init ==
    /\ call \in {"interpret_fsck_output", "interpret_dfsadmin_report"}
    /\ keys = <<>>
    /\ InitLocals

\* The for loop has a next line.
InLoop(f) == call = f /\ pc = "loop" /\ Len(consumed) < MaxLines

\* ------------------------------------------------- interpret_fsck_output

\* A line with a colon and an empty value: the beginning of a new section.
FsckHeaderLine(raw) ==
    /\ InLoop("interpret_fsck_output")
    /\ HasColon(raw)
    /\ FsckValue(raw) = <<>>
    /\ consumed' = Append(consumed, raw)
    /\ fsck_section' = Some(FsckKey(raw))
    /\ fsck_dict' = DictSet(fsck_dict, FsckKey(raw), Object(EmptyDict))
    /\ UNCHANGED <<call, pc, exc, dfsVars, keys>>

\* A line with a colon and a value: a key-value pair, within the current
\* section when there is one.
FsckKeyValueLine(raw) ==
    /\ InLoop("interpret_fsck_output")
    /\ HasColon(raw)
    /\ FsckValue(raw) # <<>>
    /\ consumed' = Append(consumed, raw)
    /\ LET key   == FsckKey(raw)
           value == FsckValue(raw)
       IN  IF fsck_section.some
           THEN IF fsck_dict[fsck_section.v].t = "Object"
                THEN /\ fsck_dict' = DictSet(fsck_dict, fsck_section.v,
                            Object(DictSet(fsck_dict[fsck_section.v].v, key, Leaf(value))))
                     /\ UNCHANGED <<pc, exc>>
                ELSE /\ pc' = "raised"
                     /\ exc' = TypeError
                     /\ UNCHANGED fsck_dict
           ELSE /\ fsck_dict' = DictSet(fsck_dict, key, Leaf(value))
                /\ UNCHANGED <<pc, exc>>
    /\ UNCHANGED <<call, fsck_section, dfsVars, keys>>

\* A line without a colon.
FsckOtherLine(raw) ==
    /\ InLoop("interpret_fsck_output")
    /\ ~HasColon(raw)
    /\ consumed' = Append(consumed, raw)
    /\ UNCHANGED <<call, pc, exc, fsckVars, dfsVars, keys>>

\* return fsck_dict
FsckReturn ==
    /\ call = "interpret_fsck_output"
    /\ pc = "loop"
    /\ pc' = "returned"
    /\ UNCHANGED <<call, exc, consumed, fsckVars, dfsVars, keys>>

\* --------------------------------------------- interpret_dfsadmin_report

\* The report once the open section is stored in it, as the code does when a
\* new header arrives: the list of an array section, the object of another.
FlushedAtHeader ==
    IF Truthy(current_section)
    THEN DictSet(dfsadmin_dict, current_section.v,
                 IF is_array THEN List(current_object_list)
                 ELSE Object(current_object))
    ELSE dfsadmin_dict

ListAtReturnDropped == current_object_list

\* The section's list at the end of the input: the entry in progress is added
\* when it is not empty.
ListAtReturn ==
    IF current_object # EmptyDict
    THEN Append(current_object_list, current_object)
    ELSE current_object_list

SectionKept == current_section

\* current_section once a blank line has closed a section that is no array.
SectionClosed == None

\* A line with a colon and an empty value: the beginning of a new section.
DfsHeaderLine(raw) ==
    /\ InLoop("interpret_dfsadmin_report")
    /\ HasColon(DfsLine(raw))
    /\ DfsValue(DfsLine(raw)) = <<>>
    /\ consumed' = Append(consumed, raw)
    /\ LET line == DfsLine(raw)
           n    == Count(line)
       IN  /\ dfsadmin_dict' = FlushedAtHeader
           /\ current_section' = Some(DfsKey(line))
           /\ IF n.ok
              THEN /\ objects_remaining' = n.val
                   /\ is_array' = IsArrayLine(line)
                   /\ current_object_list' = <<>>
                   /\ current_object' = EmptyDict
                   /\ in_object_section' = (n.val > 0)
                   /\ UNCHANGED <<pc, exc>>
              ELSE /\ objects_remaining' =
                          (IF Truthy(current_section) THEN 0 ELSE objects_remaining)
                   /\ pc' = "raised"
                   /\ exc' = ValueError(CountText(line))
                   /\ UNCHANGED <<is_array, current_object_list, current_object,
                                  in_object_section>>
    /\ UNCHANGED <<call, fsckVars, keys>>

\* A line with a colon and a value: a key-value pair of the entry in progress,
\* of the section's own object, or of the top level.
DfsKeyValueLine(raw) ==
    /\ InLoop("interpret_dfsadmin_report")
    /\ HasColon(DfsLine(raw))
    /\ DfsValue(DfsLine(raw)) # <<>>
    /\ consumed' = Append(consumed, raw)
    /\ LET key     == DfsKey(DfsLine(raw))
           value   == DfsValue(DfsLine(raw))
           ensured == IF Truthy(current_section)
                         /\ current_section.v \notin DOMAIN dfsadmin_dict
                      THEN DictSet(dfsadmin_dict, current_section.v, Object(EmptyDict))
                      ELSE dfsadmin_dict
       IN  IF in_object_section /\ objects_remaining > 0
           THEN /\ current_object' = DictSet(current_object, key, Leaf(value))
                /\ UNCHANGED <<dfsadmin_dict, pc, exc>>
           ELSE /\ UNCHANGED current_object
                /\ IF Truthy(current_section)
                   THEN IF ensured[current_section.v].t = "Object"
                        THEN /\ dfsadmin_dict' =
                                   DictSet(ensured, current_section.v,
                                       Object(DictSet(ensured[current_section.v].v,
                                                      key, Leaf(value))))
                             /\ UNCHANGED <<pc, exc>>
                        ELSE /\ dfsadmin_dict' = ensured
                             /\ pc' = "raised"
                             /\ exc' = TypeError
                   ELSE /\ dfsadmin_dict' = DictSet(ensured, key, Leaf(value))
                        /\ UNCHANGED <<pc, exc>>
    /\ UNCHANGED <<call, fsckVars, current_section, current_object_list,
                   objects_remaining, in_object_section, is_array, keys>>

DfsBlankLineAlwaysAppends(raw) ==
    /\ InLoop("interpret_dfsadmin_report")
    /\ ~HasColon(DfsLine(raw))
    /\ DfsLine(raw) = <<>>
    /\ consumed' = Append(consumed, raw)
    /\ IF in_object_section /\ current_section.some
       THEN /\ IF ~is_array
               THEN /\ dfsadmin_dict' = DictSet(dfsadmin_dict, current_section.v,
                                                Object(current_object))
                    /\ current_section' = SectionClosed
                    /\ objects_remaining' = objects_remaining - 1
                    /\ UNCHANGED current_object_list
               ELSE /\ current_object_list' =
                          Append(current_object_list, current_object)
                    /\ objects_remaining' = objects_remaining - 1
                    /\ UNCHANGED <<dfsadmin_dict, current_section>>
            /\ current_object' = EmptyDict
       ELSE UNCHANGED <<dfsadmin_dict, current_section, current_object_list,
                        current_object, objects_remaining>>
    /\ UNCHANGED <<call, pc, exc, fsckVars, in_object_section, is_array, keys>>

\* An empty line: the end of an object entry.
DfsBlankLine(raw) ==
    /\ InLoop("interpret_dfsadmin_report")
    /\ ~HasColon(DfsLine(raw))
    /\ DfsLine(raw) = <<>>
    /\ consumed' = Append(consumed, raw)
    /\ IF in_object_section /\ current_section.some
       THEN /\ IF ~is_array
               THEN /\ dfsadmin_dict' = DictSet(dfsadmin_dict, current_section.v,
                                                Object(current_object))
                    /\ current_section' = SectionClosed
                    /\ objects_remaining' = objects_remaining - 1
                    /\ UNCHANGED current_object_list
               ELSE IF current_object # EmptyDict
                    THEN /\ current_object_list' =
                               Append(current_object_list, current_object)
                         /\ objects_remaining' = objects_remaining - 1
                         /\ UNCHANGED <<dfsadmin_dict, current_section>>
                    ELSE UNCHANGED <<dfsadmin_dict, current_section,
                                     current_object_list, objects_remaining>>
            /\ current_object' = EmptyDict
       ELSE UNCHANGED <<dfsadmin_dict, current_section, current_object_list,
                        current_object, objects_remaining>>
    /\ UNCHANGED <<call, pc, exc, fsckVars, in_object_section, is_array, keys>>

DfsOtherLineEndsEntry(raw) ==
    /\ InLoop("interpret_dfsadmin_report")
    /\ ~HasColon(DfsLine(raw))
    /\ DfsLine(raw) # <<>>
    /\ consumed' = Append(consumed, raw)
    /\ current_object' = EmptyDict
    /\ UNCHANGED <<call, pc, exc, fsckVars, dfsadmin_dict, current_section,
                   current_object_list, objects_remaining, in_object_section,
                   is_array, keys>>

\* A line that is not empty and has no colon.
DfsOtherLine(raw) ==
    /\ InLoop("interpret_dfsadmin_report")
    /\ ~HasColon(DfsLine(raw))
    /\ DfsLine(raw) # <<>>
    /\ consumed' = Append(consumed, raw)
    /\ UNCHANGED <<call, pc, exc, fsckVars, dfsVars, keys>>

\* After the loop: add the last section, return dfsadmin_dict.
DfsReturn ==
    /\ call = "interpret_dfsadmin_report"
    /\ pc = "loop"
    /\ pc' = "returned"
    /\ IF Truthy(current_section)
       THEN IF is_array
            THEN /\ current_object_list' = ListAtReturn
                 /\ dfsadmin_dict' = DictSet(dfsadmin_dict, current_section.v,
                                             List(current_object_list'))
            ELSE /\ dfsadmin_dict' = DictSet(dfsadmin_dict, current_section.v,
                                             Object(current_object))
                 /\ UNCHANGED current_object_list
       ELSE UNCHANGED <<dfsadmin_dict, current_object_list>>
    /\ UNCHANGED <<call, exc, consumed, fsckVars, current_section, current_object,
                   objects_remaining, in_object_section, is_array, keys>>

\* ------------------------------------------------------------------- spec

Next ==
    \/ \E raw \in FsckLines : FsckHeaderLine(raw)
    \/ \E raw \in FsckLines : FsckKeyValueLine(raw)
    \/ \E raw \in FsckLines : FsckOtherLine(raw)
    \/ FsckReturn
    \/ \E raw \in Lines : DfsHeaderLine(raw)
    \/ \E raw \in Lines : DfsKeyValueLine(raw)
    \/ \E raw \in Lines : DfsBlankLine(raw)
    \/ \E raw \in Lines : DfsOtherLine(raw)
    \/ DfsReturn

Spec == Init /\ [][Next]_vars

\* ------------------------------------------------------- key normalization

\* The key expression of interpret_dfsadmin_report applied to a raw key, and
\* again to its own result.
InitNormalize ==
    /\ call = "normalize"
    /\ keys \in {<<k>> : k \in RawKeys}
    /\ InitLocals

NormalizeKey ==
    /\ call = "normalize"
    /\ Len(keys) < 3
    /\ keys' = Append(keys, Normalize(keys[Len(keys)]))
    /\ UNCHANGED <<call, pc, exc, consumed, fsckVars, dfsVars>>

NextNormalize == NormalizeKey

SpecNormalize == InitNormalize /\ [][NextNormalize]_vars


\* ------------------------------------------------------- reading the input

\* What a line of the input is, read off its text alone.
RawKey(raw) == Strip(SplitHead(raw, COLON))
RawValue(raw) == Strip(SplitRest(raw, COLON))
IsBlank(raw) == Strip(raw) = <<>>
IsUnparsable(raw) == ~Contains(raw, COLON) /\ ~IsBlank(raw)
IsHeader(raw) == Contains(raw, COLON) /\ RawValue(raw) = <<>>
IsKeyValue(raw) == Contains(raw, COLON) /\ RawValue(raw) # <<>>

\* The canonical key and the leaf of a key/value line of a capacity report.
CanonicalKey(raw) == Normalize(RawKey(raw))
StrippedValue(raw) == SplitHead(RawValue(raw), SPLPAREN)

\* A header with a parenthetical in its key, and the count it declares.
IsArrayHeader(raw) == IsHeader(raw) /\ Contains(RawKey(raw), LPAREN)
IsScalarHeader(raw) == IsHeader(raw) /\ ~Contains(RawKey(raw), LPAREN)
Declared(raw) == IntParse(SplitHead(SplitLast(RawKey(raw), LPAREN), RPAREN))
HasValidCount(raw) == Declared(raw).ok /\ Declared(raw).val >= 0

\* consumed[i..j]
Between(i, j) == SubSeq(consumed, i, j)

\* The runs of key/value lines that blank lines separate, in order.
RECURSIVE EntryRuns(_, _, _)
EntryRuns(ls, done, cur) ==
    IF ls = <<>> THEN (IF cur = <<>> THEN done ELSE Append(done, cur))
    ELSE IF IsBlank(Head(ls))
         THEN EntryRuns(Tail(ls), IF cur = <<>> THEN done ELSE Append(done, cur), <<>>)
         ELSE IF IsKeyValue(Head(ls))
              THEN EntryRuns(Tail(ls), done, Append(cur, Head(ls)))
              ELSE EntryRuns(Tail(ls), done, cur)

\* The pairs of the key/value lines of ls: each canonical key with the leaf of
\* the last line that has it.
PairsOf(ls) ==
    LET kv == {i \in 1..Len(ls) : IsKeyValue(ls[i])}
    IN  [k \in {CanonicalKey(ls[i]) : i \in kv} |->
            LET last == CHOOSE i \in kv :
                            /\ CanonicalKey(ls[i]) = k
                            /\ \A j \in kv : CanonicalKey(ls[j]) = k => j <= i
            IN  Leaf(StrippedValue(ls[last]))]

Returned(f) == call = f /\ pc = "returned"

\* The report holds under name the list of the entries of ls.
HoldsEntries(name, ls) ==
    /\ name \in DOMAIN dfsadmin_dict
    /\ dfsadmin_dict[name].t = "List"
    /\ LET runs == EntryRuns(ls, <<>>, <<>>)
       IN  /\ Len(dfsadmin_dict[name].v) = Len(runs)
           /\ \A i \in 1..Len(runs) : dfsadmin_dict[name].v[i] = PairsOf(runs[i])

\* The report holds under name the object of the key/value lines of ls.
HoldsObject(name, ls) ==
    /\ name \in DOMAIN dfsadmin_dict
    /\ dfsadmin_dict[name].t = "Object"
    /\ dfsadmin_dict[name].v = PairsOf(ls)

\* ------------------------------------------------------------------ claims

\* Line h is an array header declaring n >= 1 and exactly n entries (runs of
\* key/value lines, separated by blank lines) follow it to the end.
WellFormedArrayAt(h) ==
    /\ IsArrayHeader(consumed[h])
    /\ Declared(consumed[h]).ok
    /\ Declared(consumed[h]).val >= 1
    /\ \A j \in (h + 1)..Len(consumed) : IsKeyValue(consumed[j]) \/ IsBlank(consumed[j])
    /\ Len(EntryRuns(Between(h + 1, Len(consumed)), <<>>, <<>>)) = Declared(consumed[h]).val

\* C1: when interpret_dfsadmin_report returns and its input ends with an array
\* header declaring n >= 1 followed by exactly n blank-line-separated entries,
\* the report maps the normalized section name to the List of the n entries'
\* objects (each key with its leaf), in input order.
C1_ArrayOfDeclaredLength ==
    Returned("interpret_dfsadmin_report") =>
        \A h \in 1..Len(consumed) :
            WellFormedArrayAt(h) =>
                /\ HoldsEntries(CanonicalKey(consumed[h]), Between(h + 1, Len(consumed)))
                /\ Len(dfsadmin_dict[CanonicalKey(consumed[h])].v) = Declared(consumed[h]).val

\* A returned report whose input is a two-entry array section, well formed.
C1_Witness ==
    /\ Returned("interpret_dfsadmin_report")
    /\ Len(consumed) = 4
    /\ WellFormedArrayAt(1)
    /\ Declared(consumed[1]).val = 2
    /\ Len(dfsadmin_dict[CanonicalKey(consumed[1])].v) = 2


\* Line h is a scalar header, line b the first blank line after it, no header
\* stands between them, and none follows b.
ScalarClosedAt(h, b) ==
    /\ h < b
    /\ IsScalarHeader(consumed[h])
    /\ IsBlank(consumed[b])
    /\ \A j \in (h + 1)..(b - 1) : ~IsBlank(consumed[j]) /\ ~IsHeader(consumed[j])
    /\ \A j \in (b + 1)..Len(consumed) : ~IsHeader(consumed[j])

\* Every key/value line of ls is at the top level of the report.
AtTopLevel(ls) ==
    \A k \in DOMAIN PairsOf(ls) :
        /\ k \in DOMAIN dfsadmin_dict
        /\ dfsadmin_dict[k].t = "Leaf"
        /\ dfsadmin_dict[k].v = PairsOf(ls)[k].v

\* C2: in interpret_dfsadmin_report the first blank line after a scalar header
\* closes the section: the object of the lines between them (empty when there
\* are none) is in the report under the section's name, no section is open
\* any more, and every key/value line after the blank line and before the
\* next header is at the top level of the report, not under the section.
C2_ScalarClosedByFirstBlank ==
    call = "interpret_dfsadmin_report" =>
        \A h \in 1..Len(consumed) : \A b \in 1..Len(consumed) :
            ScalarClosedAt(h, b) =>
                /\ pc # "raised"
                /\ current_section = None
                /\ AtTopLevel(Between(b + 1, Len(consumed)))
                /\ CanonicalKey(consumed[h]) \notin DOMAIN PairsOf(Between(b + 1, Len(consumed)))
                      => HoldsObject(CanonicalKey(consumed[h]), Between(h + 1, b - 1))

\* A scalar section with one pair, closed by a blank line, then a pair.
C2_Witness ==
    /\ call = "interpret_dfsadmin_report"
    /\ Len(consumed) = 4
    /\ ScalarClosedAt(1, 3)
    /\ IsKeyValue(consumed[2])
    /\ IsKeyValue(consumed[4])
    /\ CanonicalKey(consumed[4]) \in DOMAIN dfsadmin_dict
    /\ CanonicalKey(consumed[1]) \in DOMAIN dfsadmin_dict

\* Line h is an array header whose declared count is more than the number of
\* entries that follow it to the end of the input.
TruncatedArrayAt(h) ==
    /\ IsArrayHeader(consumed[h])
    /\ Declared(consumed[h]).ok
    /\ \A j \in (h + 1)..Len(consumed) : IsKeyValue(consumed[j]) \/ IsBlank(consumed[j])
    /\ Len(EntryRuns(Between(h + 1, Len(consumed)), <<>>, <<>>)) < Declared(consumed[h]).val

\* Line h is a scalar header and neither a blank line nor a header follows it.
OpenScalarAt(h) ==
    /\ IsScalarHeader(consumed[h])
    /\ \A j \in (h + 1)..Len(consumed) : ~IsBlank(consumed[j]) /\ ~IsHeader(consumed[j])

\* C3: when the input of interpret_dfsadmin_report ends while a section is
\* open the call returns and nothing accumulated is lost: an array section
\* with fewer entries than declared yields the List of the entries there are
\* (the last one included when no blank line follows it), and an open scalar
\* section's object is in the report under the section's name.
C3_OpenSectionKeptAtEnd ==
    Returned("interpret_dfsadmin_report") =>
        \A h \in 1..Len(consumed) :
            /\ TruncatedArrayAt(h) =>
                  HoldsEntries(CanonicalKey(consumed[h]), Between(h + 1, Len(consumed)))
            /\ OpenScalarAt(h) =>
                  HoldsObject(CanonicalKey(consumed[h]), Between(h + 1, Len(consumed)))

\* The same, for the sections that have a name.
C3_NamedOpenSectionKeptAtEnd ==
    Returned("interpret_dfsadmin_report") =>
        \A h \in 1..Len(consumed) :
            CanonicalKey(consumed[h]) # <<>> =>
                /\ TruncatedArrayAt(h) =>
                      HoldsEntries(CanonicalKey(consumed[h]), Between(h + 1, Len(consumed)))
                /\ OpenScalarAt(h) =>
                      HoldsObject(CanonicalKey(consumed[h]), Between(h + 1, Len(consumed)))


\* Line i is a header whose key has a parenthetical that holds no valid
\* non-negative integer.
MalformedCountAt(i) ==
    /\ IsArrayHeader(consumed[i])
    /\ ~HasValidCount(consumed[i])

\* C4: in interpret_dfsadmin_report a header whose parenthetical holds no
\* valid non-negative integer (a negative number included) ends the call with
\* an error at that line: no count is assumed, no further line is read and no
\* report is returned.  (That the error names the line's text and number is
\* the rest of the claim; the exception the code raises holds neither.)
C4_MalformedCountAborts ==
    call = "interpret_dfsadmin_report" =>
        \A i \in 1..Len(consumed) :
            MalformedCountAt(i) =>
                /\ pc = "raised"
                /\ exc.type # "None"
                /\ Len(consumed) = i

\* The key/leaf pairs of a dict, of a report (to its full depth: the dicts
\* of its Objects and Lists), and of everything either parser holds.
LeafPairs(d) == {<<k, d[k].v>> : k \in {x \in DOMAIN d : d[x].t = "Leaf"}}

ReportPairs(r) ==
    LeafPairs(r)
    \cup UNION {LeafPairs(r[k].v) : k \in {x \in DOMAIN r : r[x].t = "Object"}}
    \cup UNION {UNION {LeafPairs(r[k].v[i]) : i \in 1..Len(r[k].v)} :
                   k \in {x \in DOMAIN r : r[x].t = "List"}}

StoredPairs ==
    ReportPairs(fsck_dict) \cup ReportPairs(dfsadmin_dict)
    \cup LeafPairs(current_object)
    \cup UNION {LeafPairs(current_object_list[i]) : i \in 1..Len(current_object_list)}

\* The keys, section names and leaves held anywhere by either parser.
StoredTexts ==
    DOMAIN fsck_dict \cup DOMAIN dfsadmin_dict
    \cup {p[1] : p \in StoredPairs} \cup {p[2] : p \in StoredPairs}

\* The step consumes a line that is not blank and has no colon.
ConsumesUnparsable ==
    /\ Len(consumed') = Len(consumed) + 1
    /\ IsUnparsable(consumed'[Len(consumed')])

\* C5: in both parsers a line that is not blank and has no colon changes
\* nothing: the report, the open section, the object in progress, the list
\* and the count of remaining entries are after it what they were before,
\* and its text is no key and no leaf of anything the parser holds.
C5_UnparsableLineChangesNothing ==
    /\ [][ConsumesUnparsable => UNCHANGED <<pc, exc, fsckVars, dfsVars>>]_vars
    /\ [](\A i \in 1..Len(consumed) :
             IsUnparsable(consumed[i]) => Strip(consumed[i]) \notin StoredTexts)

\* An unparsable line met inside an entry in progress, then another pair.
C5_Witness ==
    /\ call = "interpret_dfsadmin_report"
    /\ Len(consumed) = 4
    /\ IsUnparsable(consumed[3])
    /\ IsKeyValue(consumed[2])
    /\ IsKeyValue(consumed[4])
    /\ Cardinality(DOMAIN current_object) = 2

NoHeader == \A i \in 1..Len(consumed) : ~IsHeader(consumed[i])

\* C6: when the input of interpret_dfsadmin_report has no section header the
\* report holds exactly the key/value lines, each as a Leaf at the top level
\* under its normalized key (no Object, no List).
C6_TopLevelWithoutHeader ==
    (call = "interpret_dfsadmin_report" /\ NoHeader) =>
        /\ pc # "raised"
        /\ DOMAIN dfsadmin_dict = DOMAIN PairsOf(consumed)
        /\ \A k \in DOMAIN dfsadmin_dict :
              /\ dfsadmin_dict[k].t = "Leaf"
              /\ dfsadmin_dict[k].v = PairsOf(consumed)[k].v

\* A returned report of two keys from a header-less input.
C6_Witness ==
    /\ Returned("interpret_dfsadmin_report")
    /\ NoHeader
    /\ Cardinality(DOMAIN dfsadmin_dict) = 2
    /\ \E k \in DOMAIN dfsadmin_dict : \E i \in 1..Len(consumed) :
          IsKeyValue(consumed[i]) /\ k = CanonicalKey(consumed[i]) /\ k # RawKey(consumed[i])


LastLine == consumed[Len(consumed)]

\* The loop has just run its body on a key/value line.
AfterKeyValue(f) ==
    /\ call = f
    /\ pc = "loop"
    /\ consumed # <<>>
    /\ IsKeyValue(LastLine)

\* C7 as claimed: both parsers store, as the leaf of a key/value line, the
\* trimmed value cut at its first ' (' (space, open parenthesis).
C7_BothParsersStripValues ==
    /\ AfterKeyValue("interpret_dfsadmin_report") =>
          <<CanonicalKey(LastLine), StrippedValue(LastLine)>> \in StoredPairs
    /\ AfterKeyValue("interpret_fsck_output") =>
          <<RawKey(LastLine), StrippedValue(LastLine)>> \in StoredPairs
    /\ \A p \in StoredPairs : ~Contains(p[2], SPLPAREN)

\* C7, amended: interpret_dfsadmin_report stores the trimmed value cut at its
\* first ' (' and holds no leaf with a ' (' in it; interpret_fsck_output
\* stores the trimmed value whole, its parenthetical kept.
C7_OnlyCapacityParserStripsValues ==
    /\ AfterKeyValue("interpret_dfsadmin_report") =>
          <<CanonicalKey(LastLine), StrippedValue(LastLine)>> \in StoredPairs
    /\ call = "interpret_dfsadmin_report" =>
          \A p \in StoredPairs : ~Contains(p[2], SPLPAREN)
    /\ AfterKeyValue("interpret_fsck_output") =>
          <<RawKey(LastLine), RawValue(LastLine)>> \in StoredPairs

\* interpret_fsck_output has just stored a value that has a parenthetical.
C7_Witness ==
    /\ AfterKeyValue("interpret_fsck_output")
    /\ Contains(RawValue(LastLine), SPLPAREN)
    /\ StrippedValue(LastLine) # RawValue(LastLine)
    /\ <<RawKey(LastLine), RawValue(LastLine)>> \in StoredPairs

\* The lines since the last line that ended an object: a header, or in
\* interpret_dfsadmin_report a blank line.
EndsObject(raw) ==
    IsHeader(raw) \/ (call = "interpret_dfsadmin_report" /\ IsBlank(raw))

RunStart ==
    LET ends == {i \in 1..Len(consumed) : EndsObject(consumed[i])}
    IN  IF ends = {} THEN 1 ELSE 1 + CHOOSE i \in ends : \A j \in ends : j <= i

\* The key a parser gives a key/value line.
KeyIn(raw) ==
    IF call = "interpret_fsck_output" THEN RawKey(raw) ELSE CanonicalKey(raw)

\* The leaf a parser gives a key/value line.
LeafIn(raw) ==
    IF call = "interpret_fsck_output" THEN RawValue(raw) ELSE StrippedValue(raw)

\* The dict the key/value lines of the current run are written to.
Target ==
    IF call = "interpret_fsck_output"
    THEN (IF fsck_section.some THEN fsck_dict[fsck_section.v].v ELSE fsck_dict)
    ELSE IF in_object_section /\ objects_remaining > 0 THEN current_object
         ELSE IF Truthy(current_section) THEN dfsadmin_dict[current_section.v].v
              ELSE dfsadmin_dict

NormalizedTwice == call = "normalize" /\ Len(keys) = 3

\* The trimmed raw key, cut at its first ' (', ends in a whitespace character
\* that is no space.
EndsInOtherWhitespace(k) ==
    LET cut == SplitHead(Strip(k), SPLPAREN)
    IN  cut # <<>> /\ cut[Len(cut)] \in Whitespace \ {SP}

\* C9 as claimed: normalization is idempotent on every raw key over letters,
\* spaces and other whitespace, '(', ')', '%' and '_'.
C9_NormalizeIdempotent ==
    NormalizedTwice => keys[3] = keys[2]

\* C9, amended: normalization is idempotent on every raw key whose trimmed
\* text before its first ' (' does not end in a whitespace character other
\* than a space; on the other keys the second normalization trims what the
\* first left.
C9_NormalizeIdempotentUnlessCutAtWhitespace ==
    NormalizedTwice =>
        /\ ~EndsInOtherWhitespace(keys[1]) => keys[3] = keys[2]
        /\ keys[3] = Strip(keys[2])

\* A key that normalization changes (case, '%', a parenthetical) and that a
\* second normalization leaves alone.
C9_Witness ==
    /\ NormalizedTwice
    /\ ~EndsInOtherWhitespace(keys[1])
    /\ Contains(keys[1], SPLPAREN)
    /\ Contains(keys[1], <<"%">>)
    /\ keys[2] # keys[1]
    /\ keys[3] = keys[2]

\* The step consumes a line of this kind.
ConsumesHeader ==
    Len(consumed') = Len(consumed) + 1 /\ IsHeader(consumed'[Len(consumed')])

ConsumesKeyValue ==
    Len(consumed') = Len(consumed) + 1 /\ IsKeyValue(consumed'[Len(consumed')])

\* C10: in every reachable state of either parser no leaf is the empty
\* string; a line with a colon and an empty value writes no leaf and makes
\* its key the current section (in interpret_fsck_output, with an empty
\* Object under it); a line with a colon and a value opens no section.
C10_EmptyValueIsHeaderNeverLeaf ==
    /\ [](\A p \in StoredPairs : p[2] # <<>>)
    /\ [][ConsumesHeader =>
             /\ StoredPairs' \subseteq StoredPairs
             /\ call = "interpret_dfsadmin_report" =>
                   current_section' = Some(CanonicalKey(consumed'[Len(consumed')]))
             /\ call = "interpret_fsck_output" =>
                   /\ fsck_section' = Some(RawKey(consumed'[Len(consumed')]))
                   /\ fsck_dict'[RawKey(consumed'[Len(consumed')])] = Object(EmptyDict)]_vars
    /\ [][ConsumesKeyValue =>
             /\ current_section' = current_section
             /\ fsck_section' = fsck_section
             /\ pc' = "loop" =>
                   <<KeyIn(consumed'[Len(consumed')]), LeafIn(consumed'[Len(consumed')])>>
                       \in StoredPairs']_vars

\* A header has opened a section in which a pair was then stored.
C10_Witness ==
    /\ Len(consumed) = 2
    /\ pc = "loop"
    /\ IsHeader(consumed[1])
    /\ IsKeyValue(consumed[2])
    /\ StoredPairs = {<<KeyIn(consumed[2]), LeafIn(consumed[2])>>}
    /\ \/ call = "interpret_fsck_output" /\ fsck_section = Some(RawKey(consumed[1]))
       \/ call = "interpret_dfsadmin_report"
             /\ current_section = Some(CanonicalKey(consumed[1]))

\* What a blank line met in the current state leaves of the report, the open
\* section and the section's list (the code of the blank-line branch).
ReportAfterBlank ==
    IF in_object_section /\ current_section.some /\ ~is_array
    THEN DictSet(dfsadmin_dict, current_section.v, Object(current_object))
    ELSE dfsadmin_dict

SectionAfterBlank ==
    IF in_object_section /\ current_section.some /\ ~is_array
    THEN None ELSE current_section

ListAfterBlank ==
    IF in_object_section /\ current_section.some /\ is_array
       /\ current_object # EmptyDict
    THEN Append(current_object_list, current_object)
    ELSE current_object_list

\* The report a header leaves when a blank line is read just before it.
ReportAfterBlankThenHeader ==
    IF Truthy(SectionAfterBlank)
    THEN DictSet(ReportAfterBlank, SectionAfterBlank.v,
                 IF is_array THEN List(ListAfterBlank) ELSE Object(EmptyDict))
    ELSE ReportAfterBlank

\* C11: in interpret_dfsadmin_report a header that arrives while a section is
\* open flushes that section exactly as a blank line would: the report is
\* the one a blank line just before the header gives (a header sets every
\* other local anew, so the returned reports are equal exactly when the
\* reports after the header are).  In particular the entry in progress of
\* an array section is in the section's List and a scalar section's object
\* is in its slot.  Stated of the open sections that have a name: the section
\* named '' is not flushed by a header at all, as it is not at the end of
\* the input.
C11_HeaderFlushesLikeBlank ==
    [][(ConsumesHeader /\ call = "interpret_dfsadmin_report" /\ Truthy(current_section))
          => dfsadmin_dict' = ReportAfterBlankThenHeader]_vars

\* The same for an open scalar section that has a name, where it holds.
C11_NamedScalarFlushedByHeader ==
    [][(ConsumesHeader /\ call = "interpret_dfsadmin_report"
        /\ Truthy(current_section) /\ ~is_array)
          => dfsadmin_dict' = ReportAfterBlankThenHeader]_vars

\* Line h is an array header declaring n >= 1, line e the blank line that ends
\* its n-th entry, and only key/value lines follow e.
ArrayCompletedAt(h, e) ==
    /\ h < e
    /\ e < Len(consumed)
    /\ IsArrayHeader(consumed[h])
    /\ Declared(consumed[h]).ok
    /\ Declared(consumed[h]).val >= 1
    /\ IsBlank(consumed[e])
    /\ ~IsBlank(consumed[e - 1])
    /\ \A j \in (h + 1)..e : IsKeyValue(consumed[j]) \/ IsBlank(consumed[j])
    /\ Len(EntryRuns(Between(h + 1, e), <<>>, <<>>)) = Declared(consumed[h]).val
    /\ \A j \in (e + 1)..Len(consumed) : IsKeyValue(consumed[j])

\* C12: once an array section of interpret_dfsadmin_report has its declared
\* number of entries it is closed: no section is open, a key/value line that
\* follows before any new header is at the top level of the report, and the
\* section's value is, and stays, the List of the declared entries.
C12_CompletedArrayIsClosed ==
    call = "interpret_dfsadmin_report" =>
        \A h \in 1..Len(consumed) : \A e \in 1..Len(consumed) :
            ArrayCompletedAt(h, e) =>
                /\ pc # "raised"
                /\ current_section = None
                /\ AtTopLevel(Between(e + 1, Len(consumed)))
                /\ CanonicalKey(consumed[h]) \notin DOMAIN PairsOf(Between(e + 1, Len(consumed)))
                      => HoldsEntries(CanonicalKey(consumed[h]), Between(h + 1, e))


\* The headers read before line i, and the latest of them (0 when none).
HeadersBefore(i) == {h \in 1..(i - 1) : IsHeader(consumed[h])}

MostRecentHeader(i) ==
    IF HeadersBefore(i) = {} THEN 0
    ELSE CHOOSE h \in HeadersBefore(i) : \A g \in HeadersBefore(i) : g <= h

\* Lines i and j are read under the same section: both before any header, or
\* both under headers of the same key.
SameSection(i, j) ==
    LET h == MostRecentHeader(i)
        g == MostRecentHeader(j)
    IN  \/ h = 0 /\ g = 0
        \/ h > 0 /\ g > 0 /\ RawKey(consumed[h]) = RawKey(consumed[g])

\* The dict in which the consistency report holds the lines read at i: the
\* Object under the most recent header, or the report itself.
SectionDict(i) ==
    LET h == MostRecentHeader(i)
    IN  IF h = 0 THEN Some(fsck_dict)
        ELSE IF /\ RawKey(consumed[h]) \in DOMAIN fsck_dict
                /\ fsck_dict[RawKey(consumed[h])].t = "Object"
             THEN Some(fsck_dict[RawKey(consumed[h])].v)
             ELSE None

\* The key/value line i is stored where it belongs: its key is a Leaf there,
\* of its own value or of the value of a later line of the same key and
\* section.
StoredUnderSection(i) ==
    /\ SectionDict(i).some
    /\ RawKey(consumed[i]) \in DOMAIN SectionDict(i).v
    /\ SectionDict(i).v[RawKey(consumed[i])].t = "Leaf"
    /\ \E j \in i..Len(consumed) :
          /\ IsKeyValue(consumed[j])
          /\ RawKey(consumed[j]) = RawKey(consumed[i])
          /\ SameSection(i, j)
          /\ SectionDict(i).v[RawKey(consumed[i])].v = RawValue(consumed[j])

\* Every header read so far has an Object under its key, and the latest one
\* is the current section whatever lines followed it.
HeadersHaveObjects ==
    /\ \A h \in 1..Len(consumed) :
          IsHeader(consumed[h]) =>
             /\ RawKey(consumed[h]) \in DOMAIN fsck_dict
             /\ fsck_dict[RawKey(consumed[h])].t = "Object"
    /\ LET h == MostRecentHeader(Len(consumed) + 1)
       IN  fsck_section = IF h = 0 THEN None ELSE Some(RawKey(consumed[h]))

\* The consistency report holds Leaves and Objects of Leaves, nothing else.
OneLevelNoList ==
    \A k \in DOMAIN fsck_dict :
       \/ fsck_dict[k].t = "Leaf"
       \/ /\ fsck_dict[k].t = "Object"
          /\ \A x \in DOMAIN fsck_dict[k].v : fsck_dict[k].v[x].t = "Leaf"

\* The section of line i is opened again after it: a later header has the key
\* of its header, or (for a line read before any header) its own key.
ReopenedAfter(i) ==
    \E g \in (i + 1)..Len(consumed) :
       /\ IsHeader(consumed[g])
       /\ RawKey(consumed[g]) =
             IF MostRecentHeader(i) = 0 THEN RawKey(consumed[i])
             ELSE RawKey(consumed[MostRecentHeader(i)])

\* C13: after any sequence of lines read by interpret_fsck_output, every
\* key/value line is stored under the most recent header read before it (at
\* the top level when none was), every header has an Object under its key
\* and the latest is the current section (no blank line closes it), and the
\* report is nested one level at most and holds no List.
C13_StoredUnderMostRecentHeader ==
    call = "interpret_fsck_output" =>
       /\ \A i \in 1..Len(consumed) : IsKeyValue(consumed[i]) => StoredUnderSection(i)
       /\ HeadersHaveObjects
       /\ OneLevelNoList
       /\ pc # "raised"

\* The same, but for the key/value lines whose section is opened again by
\* a later header: that header puts an empty Object in the slot.
C13_StoredUnlessSectionReopened ==
    call = "interpret_fsck_output" =>
       /\ \A i \in 1..Len(consumed) :
             (IsKeyValue(consumed[i]) /\ ~ReopenedAfter(i)) => StoredUnderSection(i)
       /\ HeadersHaveObjects
       /\ OneLevelNoList
       /\ pc # "raised"


\* The keys of a report at every level, and the keys either parser holds
\* (in its report, its in-progress object and list, its current section).
DictKeys(r) ==
    DOMAIN r
    \cup UNION {DOMAIN r[k].v : k \in {x \in DOMAIN r : r[x].t = "Object"}}
    \cup UNION {UNION {DOMAIN r[k].v[i] : i \in 1..Len(r[k].v)} :
                   k \in {x \in DOMAIN r : r[x].t = "List"}}

DfsStoredKeys ==
    DictKeys(dfsadmin_dict) \cup DOMAIN current_object
    \cup UNION {DOMAIN current_object_list[i] : i \in 1..Len(current_object_list)}
    \cup (IF current_section.some THEN {current_section.v} ELSE {})

FsckStoredKeys ==
    DictKeys(fsck_dict) \cup (IF fsck_section.some THEN {fsck_section.v} ELSE {})

ColonLines == {i \in 1..Len(consumed) : Contains(consumed[i], COLON)}

\* A key in canonical form: no ' (' and what follows it, no upper case letter,
\* no space, no '%'.
IsCanonical(k) ==
    /\ ~Contains(k, SPLPAREN)
    /\ \A i \in 1..Len(k) :
          /\ k[i] \notin {UpperCase[n] : n \in 1..Len(UpperCase)}
          /\ k[i] \notin {SP, "%"}

\* C14: interpret_dfsadmin_report stores every key it writes, section name
\* or leaf key at any level, as the normalized key of the line (the text
\* before the colon trimmed, cut at its first ' (', lowercased, spaces to '_',
\* '%' to '_pct'); interpret_fsck_output stores the text before the colon,
\* trimmed, as it is: case, inner spaces and parentheticals kept.
C14_KeyFormsByDialect ==
    /\ [](call = "interpret_dfsadmin_report" =>
             /\ DfsStoredKeys \subseteq {CanonicalKey(consumed[i]) : i \in ColonLines}
             /\ \A k \in DfsStoredKeys : IsCanonical(k))
    /\ [](call = "interpret_fsck_output" =>
             FsckStoredKeys \subseteq {RawKey(consumed[i]) : i \in ColonLines})
    /\ [][(ConsumesKeyValue /\ pc' = "loop") =>
             /\ call = "interpret_dfsadmin_report" =>
                   CanonicalKey(consumed'[Len(consumed')]) \in DfsStoredKeys'
             /\ call = "interpret_fsck_output" =>
                   RawKey(consumed'[Len(consumed')]) \in FsckStoredKeys']_vars
    /\ [][ConsumesHeader =>
             /\ call = "interpret_dfsadmin_report" =>
                   CanonicalKey(consumed'[Len(consumed')]) \in DfsStoredKeys'
             /\ call = "interpret_fsck_output" =>
                   RawKey(consumed'[Len(consumed')]) \in FsckStoredKeys']_vars

\* interpret_fsck_output has stored a section name and a leaf key that are not
\* in canonical form: 'L (2)' and 'D U%', where the other parser would have
\* stored 'l' and 'd_u_pct'.
C14_Witness ==
    /\ Returned("interpret_fsck_output")
    /\ Len(consumed) = 2
    /\ IsHeader(consumed[1]) /\ Contains(RawKey(consumed[1]), SPLPAREN)
    /\ IsKeyValue(consumed[2]) /\ CanonicalKey(consumed[2]) # RawKey(consumed[2])
    /\ DictKeys(fsck_dict) = {RawKey(consumed[1]), RawKey(consumed[2])}
    /\ \A k \in DictKeys(fsck_dict) : ~IsCanonical(k)


\* Every entry of every list the capacity parser holds, in its report or in
\* progress.
ListEntries ==
    UNION {{dfsadmin_dict[k].v[i] : i \in 1..Len(dfsadmin_dict[k].v)} :
              k \in {x \in DOMAIN dfsadmin_dict : dfsadmin_dict[x].t = "List"}}
    \cup {current_object_list[i] : i \in 1..Len(current_object_list)}

ConsumesBlank ==
    Len(consumed') = Len(consumed) + 1 /\ IsBlank(consumed'[Len(consumed')])

\* C15: in interpret_dfsadmin_report every element of every List is a
\* non-empty Object, and a blank line read in an array section while the
\* in-progress object is empty appends nothing to the list and leaves the
\* number of entries still expected as it was.
C15_NoEmptyListEntry ==
    /\ [](call = "interpret_dfsadmin_report" => EmptyDict \notin ListEntries)
    /\ [][(/\ ConsumesBlank
           /\ call = "interpret_dfsadmin_report"
           /\ current_section.some /\ is_array
           /\ current_object = EmptyDict)
          => /\ current_object_list' = current_object_list
             /\ objects_remaining' = objects_remaining
             /\ dfsadmin_dict' = dfsadmin_dict
             /\ current_section' = current_section]_vars

\* An array header declaring one entry, a blank line, then the entry: the
\* blank line has consumed nothing and the returned list is the one entry.
C15_Witness ==
    /\ Returned("interpret_dfsadmin_report")
    /\ Len(consumed) = 3
    /\ IsArrayHeader(consumed[1]) /\ Declared(consumed[1]).ok
    /\ Declared(consumed[1]).val = 1
    /\ IsBlank(consumed[2])
    /\ IsKeyValue(consumed[3])
    /\ HoldsEntries(CanonicalKey(consumed[1]), <<consumed[3]>>)


\* The header whose section the report's value under name comes from: the
\* latest header of that name that has been flushed (every header once the
\* call has returned, every header but the open one before).
FlushedHeaders(name) ==
    {h \in 1..Len(consumed) :
        /\ IsHeader(consumed[h])
        /\ CanonicalKey(consumed[h]) = name
        /\ (pc = "returned" \/ h < MostRecentHeader(Len(consumed) + 1))}

OwnerHeader(name) ==
    CHOOSE h \in FlushedHeaders(name) : \A g \in FlushedHeaders(name) : g <= h

\* The lists of the capacity parser hold at most bound(count) entries, count
\* being the one their header declares: the lists of the report, and the
\* in-progress list of the open array section.
ListsWithin(counts) ==
    /\ \A k \in DOMAIN dfsadmin_dict :
          dfsadmin_dict[k].t = "List" =>
             /\ FlushedHeaders(k) # {}
             /\ IsArrayHeader(consumed[OwnerHeader(k)])
             /\ Declared(consumed[OwnerHeader(k)]).ok
             /\ Declared(consumed[OwnerHeader(k)]).val \in counts =>
                   Len(dfsadmin_dict[k].v) <= Declared(consumed[OwnerHeader(k)]).val
    /\ LET h == MostRecentHeader(Len(consumed) + 1)
       IN  (/\ pc = "loop" /\ h > 0 /\ IsArrayHeader(consumed[h])
            /\ Declared(consumed[h]).val \in counts)
           => Len(current_object_list) <= Declared(consumed[h]).val

\* C16: for every input of interpret_dfsadmin_report and in every reachable
\* state, returned report included, the List of an array section holds no
\* more entries than its header declares.
C16_ListWithinDeclaredCount ==
    call = "interpret_dfsadmin_report" => ListsWithin(Int)

\* The same for the headers that declare a count of 0 or more.
C16_ListWithinNonNegativeCount ==
    call = "interpret_dfsadmin_report" => ListsWithin(Nat)


\* Every header read so far that has a parenthetical declares a count of 0
\* or more.
WellCounted ==
    \A h \in 1..Len(consumed) : IsArrayHeader(consumed[h]) => HasValidCount(consumed[h])

\* C17: interpret_dfsadmin_report is total on well-counted input: when every
\* header parenthetical holds a valid non-negative integer the call raises
\* nothing, whatever names repeat, whatever counts are 0 and however many
\* entries follow.
C17_TotalOnWellCountedInput ==
    (call = "interpret_dfsadmin_report" /\ WellCounted) => pc # "raised"

\* On well-counted input the call raises in one case only: a key/value line
\* read in a section whose expected entries are used up (none were declared,
\* or all were completed) while the report holds a List or a Leaf under the
\* section's name.  The raise leaves the section and the report as they were.
SectionSlotBlocked ==
    /\ Truthy(current_section)
    /\ ~(in_object_section /\ objects_remaining > 0)
    /\ current_section.v \in DOMAIN dfsadmin_dict
    /\ dfsadmin_dict[current_section.v].t # "Object"

C17_TotalUnlessSectionSlotBlocked ==
    (call = "interpret_dfsadmin_report" /\ WellCounted /\ pc = "raised")
       => (IsKeyValue(LastLine) /\ SectionSlotBlocked /\ exc = TypeError)


\* The keys and section names of the input are pairwise distinct.
DistinctNames ==
    \A i, j \in ColonLines : CanonicalKey(consumed[i]) = CanonicalKey(consumed[j]) => i = j

\* The returned report holds the pair of the key/value line i as a Leaf, at
\* some level.
KeptInReport(i) ==
    <<CanonicalKey(consumed[i]), StrippedValue(consumed[i])>> \in ReportPairs(dfsadmin_dict)

\* C18: interpret_dfsadmin_report drops no parsable data: when the header
\* counts are valid and the keys and section names pairwise distinct, the
\* value of every key/value line is a Leaf of the returned report.  Stated
\* of the inputs in which every section has a name: the section named '' is
\* dropped at the end of the input whatever it holds.
C18_NoParsableDataDropped ==
    (/\ Returned("interpret_dfsadmin_report") /\ WellCounted /\ DistinctNames
     /\ \A h \in 1..Len(consumed) : IsHeader(consumed[h]) => CanonicalKey(consumed[h]) # <<>>)
       => \A i \in 1..Len(consumed) : IsKeyValue(consumed[i]) => KeptInReport(i)

\* The same for the key/value lines that are not read under an array header
\* nor under a header of empty name: those at the top level and those of the
\* scalar sections.
C18_KeptOutsideArraySections ==
    (Returned("interpret_dfsadmin_report") /\ WellCounted /\ DistinctNames)
       => \A i \in 1..Len(consumed) :
             (/\ IsKeyValue(consumed[i])
              /\ LET h == MostRecentHeader(i)
                 IN  h > 0 => /\ IsScalarHeader(consumed[h])
                              /\ CanonicalKey(consumed[h]) # <<>>)
             => KeptInReport(i)

====
